---------------------------- MODULE Spec2Model ----------------------------
(***************************************************************************)
(* A model of the numerical core of the paragliding viewer:                *)
(*                                                                         *)
(*   - the pilot-stats listener of Viewer.tsx (statsListener), which at    *)
(*     every clock tick looks up the current and the 15 s old fix of a     *)
(*     track and publishes speed, vario and AGL;                           *)
(*   - calculateOptimizedPath / calculateTaskDistance of the task          *)
(*     utilities (the "taut string" relaxation).                           *)
(*                                                                         *)
(* Numbers.  TLC has integers only.  Times are milliseconds relative to    *)
(* the track's time base (trackTime = currentTimestamp - timeOffset,       *)
(* Viewer.tsx:200).  Latitudes and longitudes are microdegrees relative to *)
(* a reference point at 60 N; altitudes, radii, local coordinates and      *)
(* Cartesian3 components are metres.  Cartesian3.fromDegrees is the        *)
(* conversion to <<east, north, up>> in the tangent frame of the reference *)
(* point and Cartesian3.distance the Euclidean distance of two such        *)
(* triples.  Quotients and square roots of the path computation are        *)
(* rounded to the nearest integer, those of the listener are floored.  An  *)
(* optional value (null / undefined in the source) is a sequence of        *)
(* length 0 or 1.                                                          *)
(***************************************************************************)
EXTENDS Integers, Sequences, FiniteSets, TLC

VARIABLES
    \* ---- pilot-stats listener (Viewer.tsx) ----
    track,          \* entity.originalTrack: [fixes |-> sequence of fixes]
    globe,          \* what viewer.scene.globe.getHeight returns: <<>> or <<h>>
    lastUpdate,     \* the listener's closure variable lastUpdate
    lastCall,       \* how the last invocation ended: idle, throttled, processed
    trackTime,      \* local trackTime of the last processed invocation
    currentIndex,   \* local currentIndex of the last processed invocation
    pastIndex,      \* local pastIndex of the last processed invocation
    divided,        \* <<dt>> when the invocation divided by dt (ms), else <<>>
    newStats,       \* the entries of newStats handed to onStatsUpdate
    firstQuery,     \* the first processed query: a query without history
    \* ---- calculateOptimizedPath / calculateTaskDistance ----
    task,           \* the argument: <<>> (null) or <<[turnpoints |-> ...]>>
    pc,             \* position of the call: call, loop, returned, threw, done
    iter,           \* loop variable iter of the relaxation
    i,              \* loop variable i of the relaxation
    opt,            \* the working points opt, in local metres
    path,           \* the returned Cartesian3[] once pc is returned or done
    distance,       \* calculateTaskDistance(path) once pc is done
    optimizedPath,  \* TaskRenderer's optimizedPath: <<>> (null) or <<path>>
    \* ---- toLocal / fromLocal of both copies of calculateOptimizedPath ----
    projection,     \* <<>>, or <<r>>: a point r.p taken to the plane, and back
    \* ---- repeated calls of calculateOptimizedPath ----
    firstCall,      \* <<>>, or <<r>>: task and result of the first call,
                    \* the number of calls so far, and whether one of them
                    \* was on another task
    \* ---- App (its task state is the variable task above) ----
    tracks,         \* App state tracks: the list handed to handleTracksLoaded
    timezone,       \* App state timezone
    trackVisibility,\* App state trackVisibility: filename -> BOOLEAN
    showTask,       \* App state showTask
    loads,          \* file selections (tracks and tasks) made so far
    \* ---- TrackLoader.handleFileChange ----
    selection,      \* <<>>, or <<r>>: the file selection being read
    \* ---- Viewer: track entities and play / pause ----
    trackEntities,  \* Viewer state trackEntities: the ids of the entities
    entitiesDue,    \* the effect on [tracks] has not run since tracks changed
    isPlaying,      \* Viewer state isPlaying
    isPlayingRef,   \* isPlayingRef.current
    shouldAnimate,  \* viewer.clock.shouldAnimate
    multiplier,     \* Viewer state multiplier
    clockMultiplier,\* viewer.clock.multiplier
    effectsDue,     \* the effects on [isPlaying, multiplier] have not run
    clicks,         \* play / pause clicks so far
    ticks           \* clock ticks so far

statsVars == <<track, globe, lastUpdate, lastCall, trackTime,
               currentIndex, pastIndex, divided, newStats, firstQuery>>

pathVars == <<task, pc, iter, i, opt, path, distance, optimizedPath>>

appVars == <<tracks, timezone, trackVisibility, showTask, loads, selection,
             trackEntities, entitiesDue>>

playVars == <<isPlaying, isPlayingRef, shouldAnimate, multiplier,
              clockMultiplier, effectsDue, clicks, ticks>>

uiVars == <<appVars, playVars>>

vars == <<statsVars, pathVars, projection, firstCall, uiVars>>

\* The App, the TrackLoader and the Viewer as they are after mounting:
\* part_001:18-24 and 87, Viewer.tsx:31-36, and the effects of the mount.
NoUi ==
    /\ tracks = << >>
    /\ timezone = "UTC"
    /\ trackVisibility = << >>
    /\ showTask = TRUE
    /\ loads = 0
    /\ selection = << >>
    /\ trackEntities = << >>
    /\ entitiesDue = FALSE
    /\ isPlaying = FALSE
    /\ isPlayingRef = FALSE
    /\ shouldAnimate = FALSE
    /\ multiplier = 10
    /\ clockMultiplier = 10
    /\ effectsDue = FALSE
    /\ clicks = 0
    /\ ticks = 0

-----------------------------------------------------------------------------
(* Bounds of the model *)

MaxFixes == 3
MaxTicks == 3
TimeStep == 7500
MaxWallTicks == 4
WallStep == 250

(* Program constants *)

ThrottleMs == 500
WindowMs == 15000

-----------------------------------------------------------------------------
(* Values *)

Absent == << >>
Some(v) == << v >>

\* JavaScript's a || b on optional numbers: a when a is truthy (present and
\* not 0), else b.
JsOr(a, b) == IF a # Absent /\ a[1] # 0 THEN a ELSE b

\* a || 0 as a number.
OrZero(a) == IF a # Absent THEN a[1] ELSE 0

\* JavaScript's a / b for a >= 0 scaled to integers: a zero divisor gives a
\* non-finite number instead of an exception.
JsDiv(a, b) == IF b = 0 THEN (IF a = 0 THEN "NaN" ELSE "Infinity") ELSE a \div b

RECURSIVE SqrtBetween(_, _, _)
SqrtBetween(n, lo, hi) ==
    IF lo >= hi THEN lo
    ELSE LET mid == (lo + hi + 1) \div 2
         IN  IF mid * mid <= n THEN SqrtBetween(n, mid, hi)
             ELSE SqrtBetween(n, lo, mid - 1)

\* Math.sqrt, floored.
Sqrt(n) == SqrtBetween(n, 0, 46340)

\* Math.sqrt, to the nearest integer.
SqrtNearest(n) == LET s == Sqrt(n) IN IF n - s * s > s THEN s + 1 ELSE s

\* a / b for b > 0, to the nearest integer.
DivNearest(a, b) == (a + b \div 2) \div b

-----------------------------------------------------------------------------
(* Tracks *)

Times == {k * TimeStep : k \in 0..MaxTicks}

\* Time-ascending timestamp sequences (ties allowed), the empty one included.
Stamps ==
    {s \in UNION {[1..n -> Times] : n \in 0..MaxFixes} :
        \A k \in 1..(Len(s) - 1) : s[k] <= s[k + 1]}

Sensors == SUBSET {"gps", "baro"}
Climbs == {400}
Advances == {0, 2693}

\* The k-th fix of a track whose recorder carries `sensors`, which gains
\* `climb` metres of altitude and `advance` microdegrees of latitude per fix.
MakeFix(k, ts, sensors, climb, advance) ==
    [timestamp        |-> ts,
     latitude         |-> (k - 1) * advance,
     longitude        |-> 0,
     gpsAltitude      |-> IF "gps" \in sensors THEN Some((k - 1) * climb) ELSE Absent,
     pressureAltitude |-> IF "baro" \in sensors THEN Some((k - 1) * climb) ELSE Absent]

Tracks ==
    {[fixes |-> [k \in 1..Len(s) |-> MakeFix(k, s[k], sn, c, a)]] :
        s \in Stamps, sn \in Sensors, c \in Climbs, a \in Advances}

GlobeHeights == {Absent, Some(400)}

-----------------------------------------------------------------------------
(* Cesium *)

\* Metres per degree of longitude and of latitude on the WGS84 ellipsoid at
\* the reference latitude, 60 N.
EarthLon == 55800
EarthLat == 111413
MicroDeg == 1000000

\* Cartesian3.fromDegrees(longitude, latitude, height)
FromDegrees(lon, lat, h) ==
    <<DivNearest(lon * EarthLon, MicroDeg), DivNearest(lat * EarthLat, MicroDeg), h>>

\* Cartesian3.distance(p1, p2)
Distance(p1, p2) ==
    Sqrt((p1[1] - p2[1]) * (p1[1] - p2[1])
         + (p1[2] - p2[2]) * (p1[2] - p2[2])
         + (p1[3] - p2[3]) * (p1[3] - p2[3]))

-----------------------------------------------------------------------------
(* statsListener, Viewer.tsx:163-260, for one track entity *)

\* The while loop of Viewer.tsx:209-213 (and 225-229), followed by the
\* assignment of max to the index.  Indices are the source's, from 0.
RECURSIVE BinarySearch(_, _, _, _)
BinarySearch(fixes, min, max, t) ==
    IF min > max THEN max
    ELSE LET mid == (min + max) \div 2
         IN  IF fixes[mid + 1].timestamp < t
             THEN BinarySearch(fixes, mid + 1, max, t)
             ELSE BinarySearch(fixes, min, mid - 1, t)

\* A search that resumes from the index the previous invocation found, as
\* a listener caching its cursor between ticks would.
CursorIndexOf(fixes, t) ==
    BinarySearch(fixes, IF currentIndex > 0 THEN currentIndex ELSE 0,
                 Len(fixes) - 1, t)

\* let currentIndex ... currentIndex = max  (Viewer.tsx:205-214)
CurrentIndexOf(fixes, t) == BinarySearch(fixes, 0, Len(fixes) - 1, t)

\* targetTime ... pastIndex = max  (Viewer.tsx:221-230); -1 when the block
\* guarded by Viewer.tsx:216 is not entered.
PastIndexOf(fixes, ci, t) ==
    IF ci >= 0 /\ ci < Len(fixes)
    THEN BinarySearch(fixes, 0, ci, t - WindowMs)
    ELSE 0 - 1

\* dt of Viewer.tsx:234, in milliseconds (the source divides by 1000).
DtMs(fixes, ci, pi) == fixes[ci + 1].timestamp - fixes[pi + 1].timestamp

\* The guards with the second one loosened to pastIndex <= currentIndex and
\* the test of dt dropped.
HasSampleLoose(fixes, ci, pi) ==
    /\ ci >= 0 /\ ci < Len(fixes)
    /\ pi >= 0 /\ pi <= ci

\* The guards under which an entry is written to newStats:
\* Viewer.tsx:216, 232 and 235.
HasSample(fixes, ci, pi) ==
    /\ ci >= 0 /\ ci < Len(fixes)
    /\ pi >= 0 /\ pi < ci
    /\ DtMs(fixes, ci, pi) > 0

\* Viewer.tsx:237-253.  speed is in km/h, vario in cm/s, agl in metres.
Sample(fixes, ci, pi, globeHeight) ==
    LET currentFix == fixes[ci + 1]
        pastFix == fixes[pi + 1]
        dt == DtMs(fixes, ci, pi)
        p1 == FromDegrees(pastFix.longitude, pastFix.latitude,
                          OrZero(pastFix.gpsAltitude))
        p2 == FromDegrees(currentFix.longitude, currentFix.latitude,
                          OrZero(currentFix.gpsAltitude))
        dist == Distance(p1, p2)
        altDiff == OrZero(currentFix.gpsAltitude) - OrZero(pastFix.gpsAltitude)
        agl == IF globeHeight # Absent
               THEN OrZero(JsOr(currentFix.gpsAltitude,
                                currentFix.pressureAltitude)) - globeHeight[1]
               ELSE 0
    IN  [speed |-> JsDiv(dist * 3600, dt),
         vario |-> JsDiv(altDiff * 100000, dt),
         agl   |-> Some(agl)]

\* Date.now() at the invocations: the wall clock does not run backwards,
\* and is far more than 500 ms past the epoch.
WallTimes == {ThrottleMs + k * WallStep : k \in 0..MaxWallTicks}

\* if (now - lastUpdate < 500) return  (Viewer.tsx:165)
Throttled(now) == now - lastUpdate < ThrottleMs

\* An invocation that the throttle ends: nothing is read, nothing published.
ListenerThrottled(now) ==
    /\ Throttled(now)
    /\ lastCall' = "throttled"
    /\ UNCHANGED <<track, globe, lastUpdate, trackTime, currentIndex,
                   pastIndex, divided, newStats, firstQuery>>
    /\ UNCHANGED <<pathVars, projection, firstCall>>
    /\ UNCHANGED uiVars

\* An invocation that runs to onStatsUpdate(newStats), with
\* viewer.clock.currentTime at track time t.
ListenerProcessed(now, t) ==
    /\ ~Throttled(now)
    /\ LET fixes == track.fixes
           ci == CurrentIndexOf(fixes, t)
           pi == PastIndexOf(fixes, ci, t)
           has == HasSample(fixes, ci, pi)
           out == IF has THEN {Sample(fixes, ci, pi, globe)} ELSE {}
       IN  /\ lastUpdate' = now
           /\ lastCall' = "processed"
           /\ trackTime' = t
           /\ currentIndex' = ci
           /\ pastIndex' = pi
           /\ divided' = IF has THEN Some(DtMs(fixes, ci, pi)) ELSE Absent
           /\ newStats' = out
           /\ firstQuery' = IF firstQuery # Absent THEN firstQuery
                            ELSE Some([t |-> t, at |-> now, index |-> ci,
                                       stats |-> out])
    /\ UNCHANGED <<track, globe>>
    /\ UNCHANGED <<pathVars, projection, firstCall>>
    /\ UNCHANGED uiVars

\* One invocation of the listener by the clock's onTick event.
StatsListener ==
    \E now \in WallTimes :
        /\ now >= lastUpdate
        /\ \/ ListenerThrottled(now)
           \/ \E t \in Times : ListenerProcessed(now, t)

\* No task file has been loaded: TaskLoader's task prop is null and
\* calculateOptimizedPath is not called.
NoTask ==
    /\ task = Absent
    /\ pc = "done"
    /\ iter = 0
    /\ i = 0
    /\ opt = << >>
    /\ path = << >>
    /\ distance = 0
    /\ optimizedPath = Absent

\* The state when the effect of Viewer.tsx:158-267 has registered the
\* listener.
Init ==
    /\ NoUi
    /\ NoTask
    /\ projection = Absent
    /\ firstCall = Absent
    /\ track \in Tracks
    /\ globe \in GlobeHeights
    /\ lastUpdate = 0
    /\ lastCall = "idle"
    /\ trackTime = 0
    /\ currentIndex = 0 - 1
    /\ pastIndex = 0 - 1
    /\ divided = Absent
    /\ newStats = {}
    /\ firstQuery = Absent

Next == StatsListener

Spec == Init /\ [][Next]_vars

-----------------------------------------------------------------------------
(* Tasks (XCTask, XCTaskPoint) *)

MaxTurnpoints == 3

TurnpointTypes == {"TAKEOFF", "SSS", "TURNPOINT", "ESS", "GOAL"}

\* Consecutive turnpoints lie LegLon microdegrees of longitude (300 m)
\* apart; every second one lies `zig` microdegrees of latitude (0 or 400 m)
\* to the north.  On a "line" course the turnpoints advance to the east, on
\* an out-and-"return" course every second one is back at the first one's
\* longitude, and on a "near" course they advance by a third of LegLon.
LegLon == 5400
Courses == {"line", "return", "near"}
Zigs == {0, 3590}
\* The radii of the odd and of the even turnpoints of a task.
Radii == {<<0, 0>>, <<100, 100>>, <<350, 350>>, <<350, 0>>}
AltSteps == {Absent, Some(500)}

\* The k-th turnpoint of a task whose cylinders have the radii `radius` and
\* whose turnpoints, if they carry an altitude, gain altStep metres each.
MakeTurnpoint(k, type, course, zig, radius, altStep) ==
    [lat    |-> IF k % 2 = 0 THEN zig ELSE 0,
     lon    |-> IF course = "line" THEN (k - 1) * LegLon
                ELSE IF course = "near" THEN (k - 1) * (LegLon \div 3)
                ELSE ((k - 1) % 2) * LegLon,
     alt    |-> IF altStep = Absent THEN Absent ELSE Some((k - 1) * altStep[1]),
     radius |-> radius[2 - (k % 2)],
     type   |-> type]

TurnpointLists ==
    {[k \in 1..Len(ty) |-> MakeTurnpoint(k, ty[k], c, z, r, a)] :
        ty \in UNION {[1..n -> TurnpointTypes] : n \in 0..MaxTurnpoints},
        c \in Courses, z \in Zigs, r \in Radii, a \in AltSteps}

\* What a caller may pass: null, an object without turnpoints, a task.
Tasks ==
    {Absent, Some([turnpoints |-> Absent])}
        \cup {Some([turnpoints |-> Some(tps)]) : tps \in TurnpointLists}

-----------------------------------------------------------------------------
(* calculateOptimizedPath, part_002:10-170 *)

ITERATIONS == 50

\* The guard reduced to task.turnpoints.length < 2: reading a property of
\* null or of undefined throws a TypeError.
GuardLengthOnly(t) ==
    IF t = Absent THEN "throw"
    ELSE IF t[1].turnpoints = Absent THEN "throw"
    ELSE IF Len(t[1].turnpoints[1]) < 2 THEN "empty"
    ELSE "go"

\* The outcome of part_002:11: "empty" for return [], "go" to continue.
Guard(t) ==
    IF t = Absent THEN "empty"
    ELSE IF t[1].turnpoints = Absent THEN "empty"
    ELSE IF Len(t[1].turnpoints[1]) < 2 THEN "empty"
    ELSE "go"

\* Array.prototype.findIndex(tp => tp.type === type), scanning from index k.
RECURSIVE FindIndexFrom(_, _, _)
FindIndexFrom(tps, type, k) ==
    IF k >= Len(tps) THEN 0 - 1
    ELSE IF tps[k + 1].type = type THEN k
    ELSE FindIndexFrom(tps, type, k + 1)

FindIndex(tps, type) == FindIndexFrom(tps, type, 0)

\* part_002:17-18
StartIndex(tps) ==
    LET startIndex == FindIndex(tps, "SSS")
    IN  IF startIndex = 0 - 1 THEN 0 ELSE startIndex

\* The end index without the fallback to the last point.
EndIndexNoFallback(tps) ==
    LET endIndex == FindIndex(tps, "ESS")
    IN  IF endIndex = 0 - 1 THEN FindIndex(tps, "GOAL") ELSE endIndex

\* part_002:20-22
EndIndex(tps) ==
    LET endIndex == FindIndex(tps, "ESS")
        goal == FindIndex(tps, "GOAL")
    IN  IF endIndex # 0 - 1 THEN endIndex
        ELSE IF goal # 0 - 1 THEN goal
        ELSE Len(tps) - 1

\* points taken from the front of the list: as many as relevantTPs has,
\* but starting at the first turnpoint.
PointsFromFront(tps) ==
    LET relevantTPs == SubSeq(tps, 1, EndIndex(tps) - StartIndex(tps) + 1)
    IN  [k \in 1..Len(relevantTPs) |->
            [lat    |-> relevantTPs[k].lat,
             lon    |-> relevantTPs[k].lon,
             alt    |-> OrZero(relevantTPs[k].alt),
             radius |-> relevantTPs[k].radius,
             type   |-> relevantTPs[k].type]]

\* relevantTPs and points, part_002:27-35
Points(tps) ==
    LET relevantTPs == SubSeq(tps, StartIndex(tps) + 1, EndIndex(tps) + 1)
    IN  [k \in 1..Len(relevantTPs) |->
            [lat    |-> relevantTPs[k].lat,
             lon    |-> relevantTPs[k].lon,
             alt    |-> OrZero(relevantTPs[k].alt),
             radius |-> relevantTPs[k].radius,
             type   |-> relevantTPs[k].type]]

\* kx and ky, part_002:40-41, in metres per degree.  Math.cos is linearised
\* about 60 N; centerLat is in microdegrees from there.
Kx(centerLat) == 55566 - DivNearest(168 * centerLat, 100000)
Ky(centerLat) == 111413 + DivNearest(17 * centerLat, 1000000)

\* part_002:43-47
ToLocal(points, lon, lat) ==
    [x |-> DivNearest((lon - points[1].lon) * Kx(points[1].lat), MicroDeg),
     y |-> DivNearest((lat - points[1].lat) * Ky(points[1].lat), MicroDeg)]

\* part_002:49-53
FromLocal(points, x, y) ==
    [lat |-> points[1].lat + DivNearest(y * MicroDeg, Ky(points[1].lat)),
     lon |-> points[1].lon + DivNearest(x * MicroDeg, Kx(points[1].lat))]

\* part_002:55-58
LocalPoints(points) ==
    [k \in 1..Len(points) |->
        LET loc == ToLocal(points, points[k].lon, points[k].lat)
        IN  [x |-> loc.x, y |-> loc.y, radius |-> points[k].radius,
             alt |-> points[k].alt]]

\* center + (d / len) * r, part_002:79-80, 94-95 and 147-148
OnBoundary(center, r, dx, dy, len) ==
    [x |-> center.x + DivNearest(dx * r, len),
     y |-> center.y + DivNearest(dy * r, len)]

\* An end point that is put on the boundary only when the neighbour is
\* outside the disk, and on the neighbour otherwise.
TowardsNeighbourOutside(center, cur, other) ==
    LET dx == other.x - center.x
        dy == other.y - center.y
        len == SqrtNearest(dx * dx + dy * dy)
    IN  IF len > center.radius
        THEN OnBoundary(center, center.radius, dx, dy, len)
        ELSE IF len > 0 THEN [x |-> other.x, y |-> other.y]
        ELSE cur

\* The first and the last point, part_002:72-98: onto the boundary towards
\* the neighbour `other`, or left at `cur` when the neighbour is at the
\* centre (len > 1e-6 fails).
TowardsNeighbour(center, cur, other) ==
    LET dx == other.x - center.x
        dy == other.y - center.y
        len == SqrtNearest(dx * dx + dy * dy)
    IN  IF len > 0 THEN OnBoundary(center, center.radius, dx, dy, len) ELSE cur

\* An intermediate point that is always put on the boundary of its disk,
\* towards the closest point of the segment.
IntermediateOnBoundary(center, A, B) ==
    LET r == center.radius
        lab2 == (B.x - A.x) * (B.x - A.x) + (B.y - A.y) * (B.y - A.y)
    IN  IF lab2 < 1
        THEN [x |-> A.x, y |-> A.y]
        ELSE LET num == (center.x - A.x) * (B.x - A.x)
                            + (center.y - A.y) * (B.y - A.y)
                 closestOnSeg ==
                     IF num <= 0 THEN [x |-> A.x, y |-> A.y]
                     ELSE IF num >= lab2 THEN [x |-> B.x, y |-> B.y]
                     ELSE [x |-> A.x + DivNearest(num * (B.x - A.x), lab2),
                           y |-> A.y + DivNearest(num * (B.y - A.y), lab2)]
                 dx == closestOnSeg.x - center.x
                 dy == closestOnSeg.y - center.y
                 len == SqrtNearest(dx * dx + dy * dy)
             IN  IF len > 0 THEN OnBoundary(center, r, dx, dy, len)
                 ELSE [x |-> center.x, y |-> center.y]

\* An intermediate point, part_002:102-157, between prev = A and next = B.
Intermediate(center, A, B) ==
    LET r == center.radius
        lab2 == (B.x - A.x) * (B.x - A.x) + (B.y - A.y) * (B.y - A.y)
    IN  IF lab2 < 1
        THEN [x |-> A.x, y |-> A.y]
        ELSE LET num == (center.x - A.x) * (B.x - A.x)
                            + (center.y - A.y) * (B.y - A.y)
                 closestOnSeg ==
                     IF num <= 0 THEN [x |-> A.x, y |-> A.y]
                     ELSE IF num >= lab2 THEN [x |-> B.x, y |-> B.y]
                     ELSE [x |-> A.x + DivNearest(num * (B.x - A.x), lab2),
                           y |-> A.y + DivNearest(num * (B.y - A.y), lab2)]
                 dx == closestOnSeg.x - center.x
                 dy == closestOnSeg.y - center.y
                 distToSegSq == dx * dx + dy * dy
                 len == SqrtNearest(distToSegSq)
             IN  IF distToSegSq <= r * r THEN closestOnSeg
                 ELSE IF len > 0 THEN OnBoundary(center, r, dx, dy, len)
                 ELSE [x |-> center.x, y |-> center.y]

\* The body of the inner loop for index k (from 0), part_002:67-157.
UpdatePoint(localPoints, o, k) ==
    IF k = 0 THEN TowardsNeighbour(localPoints[1], o[1], o[2])
    ELSE IF k = Len(o) - 1
         THEN TowardsNeighbour(localPoints[k + 1], o[k + 1], o[k])
    ELSE Intermediate(localPoints[k + 1], o[k], o[k + 2])

\* part_002:162-169
ToCartesian(points, localPoints, o) ==
    [k \in 1..Len(o) |->
        LET geo == FromLocal(points, o[k].x, o[k].y)
        IN  FromDegrees(geo.lon, geo.lat, localPoints[k].alt)]

\* calculateTaskDistance, part_002:177-183
RECURSIVE CalculateTaskDistance(_)
CalculateTaskDistance(points) ==
    IF Len(points) < 2 THEN 0
    ELSE Distance(points[1], points[2]) + CalculateTaskDistance(Tail(points))

\* The call up to the relaxation loop: part_002:11-62.
CalculateOptimizedPathEnter ==
    /\ pc = "call"
    /\ LET outcome == Guard(task)
       IN  IF outcome = "throw"
           THEN /\ pc' = "threw"
                /\ UNCHANGED <<opt, path>>
           ELSE IF outcome = "empty"
           THEN /\ pc' = "returned"
                /\ path' = << >>
                /\ UNCHANGED opt
           ELSE LET tps == task[1].turnpoints[1]
                IN  IF StartIndex(tps) >= EndIndex(tps)
                    THEN /\ pc' = "returned"
                         /\ path' = << >>
                         /\ UNCHANGED opt
                    ELSE /\ pc' = "loop"
                         /\ opt' = [k \in 1..Len(Points(tps)) |->
                                      [x |-> LocalPoints(Points(tps))[k].x,
                                       y |-> LocalPoints(Points(tps))[k].y]]
                         /\ UNCHANGED path
    /\ UNCHANGED <<task, iter, i, distance, optimizedPath>>
    /\ UNCHANGED <<statsVars, projection, firstCall>>
    /\ UNCHANGED uiVars

\* One run of the inner loop's body, part_002:66-158, and the loop headers.
RelaxStep ==
    /\ pc = "loop"
    /\ iter < ITERATIONS
    /\ opt' = [opt EXCEPT
                 ![i + 1] = UpdatePoint(LocalPoints(Points(task[1].turnpoints[1])),
                                        opt, i)]
    /\ IF i + 1 < Len(opt)
       THEN /\ i' = i + 1
            /\ UNCHANGED iter
       ELSE /\ i' = 0
            /\ iter' = iter + 1
    /\ UNCHANGED <<task, pc, path, distance, optimizedPath>>
    /\ UNCHANGED <<statsVars, projection, firstCall>>
    /\ UNCHANGED uiVars

\* The loop is left after ITERATIONS passes, and the points are converted:
\* part_002:162-169.
CalculateOptimizedPathReturn ==
    /\ pc = "loop"
    /\ iter = ITERATIONS
    /\ pc' = "returned"
    /\ path' = LET points == Points(task[1].turnpoints[1])
               IN  ToCartesian(points, LocalPoints(points), opt)
    /\ UNCHANGED <<task, iter, i, opt, distance, optimizedPath>>
    /\ UNCHANGED <<statsVars, projection, firstCall>>
    /\ UNCHANGED uiVars

\* The caller hands the path to calculateTaskDistance (TaskLoader.tsx:39-40).
TaskDistance ==
    /\ pc = "returned"
    /\ distance' = CalculateTaskDistance(path)
    /\ pc' = "done"
    /\ UNCHANGED <<task, iter, i, opt, path, optimizedPath>>
    /\ UNCHANGED <<statsVars, projection, firstCall>>
    /\ UNCHANGED uiVars

\* A viewer without tracks: the listener is not registered.
NoListener ==
    /\ track = [fixes |-> << >>]
    /\ globe = Absent
    /\ lastUpdate = 0
    /\ lastCall = "idle"
    /\ trackTime = 0
    /\ currentIndex = 0 - 1
    /\ pastIndex = 0 - 1
    /\ divided = Absent
    /\ newStats = {}
    /\ firstQuery = Absent

\* calculateOptimizedPath is called with some task.
InitPath ==
    /\ NoUi
    /\ NoListener
    /\ task \in Tasks
    /\ pc = "call"
    /\ iter = 0
    /\ i = 0
    /\ opt = << >>
    /\ path = << >>
    /\ distance = 0
    /\ optimizedPath = Absent
    /\ projection = Absent
    /\ firstCall = Absent

NextPath ==
    \/ CalculateOptimizedPathEnter
    \/ RelaxStep
    \/ CalculateOptimizedPathReturn
    \/ TaskDistance

SpecPath == InitPath /\ [][NextPath]_vars

-----------------------------------------------------------------------------
(* toLocal and fromLocal of the two copies of calculateOptimizedPath,      *)
(* part_002:43-53 and part_002:222-242, on points up to 2 km from the      *)
(* origin points[0].                                                       *)

\* toLocal of the second copy, part_002:222-231: kx and ky are computed
\* from the latitude of the point that is converted.
ToLocalOwnLat(points, lon, lat) ==
    [x |-> DivNearest((lon - points[1].lon) * Kx(lat), MicroDeg),
     y |-> DivNearest((lat - points[1].lat) * Ky(lat), MicroDeg)]

\* fromLocal of the second copy, part_002:233-242: kx and ky are computed
\* from centerLat = points[0].lat.
FromLocalCenterLat(points, x, y) ==
    [lat |-> points[1].lat + DivNearest(y * MicroDeg, Ky(points[1].lat)),
     lon |-> points[1].lon + DivNearest(x * MicroDeg, Kx(points[1].lat))]

\* Origins and points, in microdegrees.
OriginLats == {0, 9000}
PointLats == {0, 6000, 12000, 18000}
PointLons == {0, 12000, 24000, 36000}

\* loc = toLocal(p.lon, p.lat)
ProjectToLocal ==
    /\ projection # Absent
    /\ projection[1].stage = "geo"
    /\ LET r == projection[1]
           loc == IF r.copy = 1 THEN ToLocal(<<r.origin>>, r.p.lon, r.p.lat)
                  ELSE ToLocalOwnLat(<<r.origin>>, r.p.lon, r.p.lat)
       IN  projection' = Some([r EXCEPT !.stage = "local", !.loc = Some(loc)])
    /\ UNCHANGED <<statsVars, pathVars, firstCall>>
    /\ UNCHANGED uiVars

\* geo = fromLocal(loc.x, loc.y)
ProjectFromLocal ==
    /\ projection # Absent
    /\ projection[1].stage = "local"
    /\ LET r == projection[1]
           loc == r.loc[1]
           geo == IF r.copy = 1 THEN FromLocal(<<r.origin>>, loc.x, loc.y)
                  ELSE FromLocalCenterLat(<<r.origin>>, loc.x, loc.y)
       IN  projection' = Some([r EXCEPT !.stage = "back", !.back = Some(geo)])
    /\ UNCHANGED <<statsVars, pathVars, firstCall>>
    /\ UNCHANGED uiVars

\* A point p of a task whose first point is origin, in one of the copies.
InitLocal ==
    /\ NoUi
    /\ NoListener
    /\ NoTask
    /\ firstCall = Absent
    /\ projection \in
          {Some([copy |-> c, origin |-> [lat |-> olat, lon |-> 0],
                 p |-> [lat |-> plat, lon |-> plon],
                 stage |-> "geo", loc |-> Absent, back |-> Absent]) :
              c \in 1..2, olat \in OriginLats, plat \in PointLats,
              plon \in PointLons}

NextLocal ==
    \/ ProjectToLocal
    \/ ProjectFromLocal

SpecLocal == InitLocal /\ [][NextLocal]_vars

-----------------------------------------------------------------------------
(* Non-finite numbers in calculateOptimizedPath and its callers.           *)
(*                                                                         *)
(* Here a number is only known by its kind: finite, NaN or an infinity.    *)
(* parseXCTask passes a lat, lon or radius that is a string on (a NaN in   *)
(* arithmetic) and reads 1e999 as Infinity.  The geometry is taken to be   *)
(* generic: finite centres are distinct and no segment between finite      *)
(* neighbours runs through a centre, so the lengths the code divides by    *)
(* are positive where they are finite.                                     *)

Kinds == {"finite", "NaN", "Infinity"}

\* A turnpoint with a usable or an unusable waypoint (lat and lon alike),
\* a finite or a NaN radius, and any altitude.
KindTurnpoints ==
    {[lat |-> p, lon |-> p, alt |-> a, radius |-> r, type |-> "TURNPOINT"] :
        p \in {"finite", "NaN"}, r \in {"finite", "NaN"}, a \in Kinds}

KindTasks ==
    {Some([turnpoints |-> Some(tps)]) :
        tps \in UNION {[1..n -> KindTurnpoints] : n \in 2..MaxTurnpoints}}

\* a || 0: NaN is falsy and becomes 0, an infinity is kept.
KindOrZero(a) == IF a = "NaN" THEN "finite" ELSE a

\* relevantTPs, points and localPoints, part_002:27-58: kx and ky are NaN
\* when the first point's lat is, and a difference with a NaN is NaN.
KindLocalPoints(tps) ==
    LET points == SubSeq(tps, StartIndex(tps) + 1, EndIndex(tps) + 1)
    IN  [k \in 1..Len(points) |->
            [pos    |-> IF /\ points[1].lat = "finite" /\ points[1].lon = "finite"
                           /\ points[k].lat = "finite" /\ points[k].lon = "finite"
                        THEN "finite" ELSE "NaN",
             radius |-> points[k].radius,
             alt    |-> KindOrZero(points[k].alt)]]

\* part_002:72-98: with a NaN centre or neighbour len is NaN, len > 1e-6 is
\* false and the point is left alone; else it is center + (d / len) * r.
KindTowardsNeighbour(center, cur, other) ==
    IF center.pos = "finite" /\ other = "finite" THEN center.radius ELSE cur

\* part_002:102-157: with a NaN among A, B and C every comparison is false
\* and the target is C; with a NaN radius distToSegSq <= r * r is false
\* and the target is C + (d / len) * r.
KindIntermediate(center, A, B) ==
    IF center.pos = "finite" /\ A = "finite" /\ B = "finite"
    THEN center.radius
    ELSE center.pos

\* The body of the inner loop for index k (from 0), part_002:67-157.
KindUpdatePoint(localPoints, o, k) ==
    IF k = 0 THEN KindTowardsNeighbour(localPoints[1], o[1], o[2])
    ELSE IF k = Len(o) - 1
         THEN KindTowardsNeighbour(localPoints[k + 1], o[k + 1], o[k])
    ELSE KindIntermediate(localPoints[k + 1], o[k], o[k + 2])

\* part_002:162-169: Cartesian3.fromDegrees of a NaN lat or lon has NaN
\* components; of a finite position and an infinite height, infinite ones.
KindToCartesian(localPoints, o) ==
    [k \in 1..Len(o) |->
        IF o[k] # "finite" THEN "NaN" ELSE KindOrZero(localPoints[k].alt)]

\* calculateTaskDistance, part_002:177-183: a distance to a NaN point, and
\* between two infinite points, is NaN; to one infinite point, infinite.
KindTaskDistance(points) ==
    IF Len(points) < 2 THEN "finite"
    ELSE IF \E k \in 1..Len(points) : points[k] = "NaN" THEN "NaN"
    ELSE IF \E k \in 1..(Len(points) - 1) :
                points[k] = "Infinity" /\ points[k + 1] = "Infinity" THEN "NaN"
    ELSE IF \E k \in 1..Len(points) : points[k] = "Infinity" THEN "Infinity"
    ELSE "finite"

\* The call up to the relaxation loop: part_002:11-62.
KindEnter ==
    /\ pc = "call"
    /\ IF Guard(task) # "go"
       THEN /\ pc' = "returned"
            /\ path' = << >>
            /\ UNCHANGED opt
       ELSE LET tps == task[1].turnpoints[1]
            IN  IF StartIndex(tps) >= EndIndex(tps)
                THEN /\ pc' = "returned"
                     /\ path' = << >>
                     /\ UNCHANGED opt
                ELSE /\ pc' = "loop"
                     /\ opt' = [k \in 1..Len(KindLocalPoints(tps)) |->
                                  KindLocalPoints(tps)[k].pos]
                     /\ UNCHANGED path
    /\ UNCHANGED <<task, iter, i, distance, optimizedPath>>
    /\ UNCHANGED <<statsVars, projection, firstCall>>
    /\ UNCHANGED uiVars

\* One run of the inner loop's body, part_002:66-158, and the loop headers.
KindRelaxStep ==
    /\ pc = "loop"
    /\ iter < ITERATIONS
    /\ opt' = [opt EXCEPT
                 ![i + 1] = KindUpdatePoint(KindLocalPoints(task[1].turnpoints[1]),
                                            opt, i)]
    /\ IF i + 1 < Len(opt)
       THEN /\ i' = i + 1
            /\ UNCHANGED iter
       ELSE /\ i' = 0
            /\ iter' = iter + 1
    /\ UNCHANGED <<task, pc, path, distance, optimizedPath>>
    /\ UNCHANGED <<statsVars, projection, firstCall>>
    /\ UNCHANGED uiVars

\* part_002:162-169: no test of the points precedes the return.
KindReturn ==
    /\ pc = "loop"
    /\ iter = ITERATIONS
    /\ pc' = "returned"
    /\ path' = KindToCartesian(KindLocalPoints(task[1].turnpoints[1]), opt)
    /\ UNCHANGED <<task, iter, i, opt, distance, optimizedPath>>
    /\ UNCHANGED <<statsVars, projection, firstCall>>
    /\ UNCHANGED uiVars

\* TaskRenderer's optimizedPath, TaskRenderer.tsx:69-84: null for a path
\* of fewer than 2 points and for one with a component that isNaN.
TaskRendererPath ==
    /\ pc = "returned"
    /\ optimizedPath' =
          IF Len(path) < 2 THEN Absent
          ELSE IF \E k \in 1..Len(path) : path[k] = "NaN" THEN Absent
          ELSE Some(path)
    /\ pc' = "rendered"
    /\ UNCHANGED <<task, iter, i, opt, path, distance>>
    /\ UNCHANGED <<statsVars, projection, firstCall>>
    /\ UNCHANGED uiVars

\* TaskLoader's taskStats, TaskLoader.tsx:37-44.
TaskLoaderStats ==
    /\ pc = "rendered"
    /\ distance' = KindTaskDistance(path)
    /\ pc' = "done"
    /\ UNCHANGED <<task, iter, i, opt, path, optimizedPath>>
    /\ UNCHANGED <<statsVars, projection, firstCall>>
    /\ UNCHANGED uiVars

\* A task file has been parsed and is handed to both components.
InitKind ==
    /\ NoUi
    /\ NoListener
    /\ task \in KindTasks
    /\ pc = "call"
    /\ iter = 0
    /\ i = 0
    /\ opt = << >>
    /\ path = << >>
    /\ distance = "finite"
    /\ optimizedPath = Absent
    /\ projection = Absent
    /\ firstCall = Absent

NextKind ==
    \/ KindEnter
    \/ KindRelaxStep
    \/ KindReturn
    \/ TaskRendererPath
    \/ TaskLoaderStats

SpecKind == InitKind /\ [][NextKind]_vars

-----------------------------------------------------------------------------
(* Notions the claims about the listener are stated with *)

\* At least one invocation has been processed, so the recorded locals are
\* those of a query at trackTime.
Queried == lastCall # "idle"

\* The latest index k in 0..hi with fixes[k].timestamp <= t, or -1.
LatestAtOrBefore(fixes, hi, t) ==
    LET S == {k \in 0..hi : fixes[k + 1].timestamp <= t}
    IN  IF S = {} THEN 0 - 1 ELSE CHOOSE k \in S : \A m \in S : m <= k

\* gpsAltitude if present, else the baro altitude, else 0.
EffectiveAltitude(fix) ==
    IF fix.gpsAltitude # Absent THEN fix.gpsAltitude[1]
    ELSE IF fix.pressureAltitude # Absent THEN fix.pressureAltitude[1]
    ELSE 0

\* The distance over ground of two fixes: their positions only.
GroundDistance(f1, f2) ==
    Distance(FromDegrees(f1.longitude, f1.latitude, 0),
             FromDegrees(f2.longitude, f2.latitude, 0))

CurrentFix == track.fixes[currentIndex + 1]
PastFix == track.fixes[pastIndex + 1]

-----------------------------------------------------------------------------
(* C1: the first binary search selects the latest fix at or before the     *)
(* query time T: the latest index i with fixes[i].timestamp <= T, and -1   *)
(* when T precedes the first fix.                                          *)
C1_CurrentFixAtOrBefore ==
    Queried =>
        currentIndex = LatestAtOrBefore(track.fixes, Len(track.fixes) - 1, trackTime)

(* C2: whenever a current fix i exists, the second binary search selects   *)
(* the latest index j <= i with fixes[j].timestamp <= T - 15000.           *)
C2_PastFixAtOrBeforeWindow ==
    (Queried /\ currentIndex >= 0) =>
        pastIndex = LatestAtOrBefore(track.fixes, currentIndex, trackTime - WindowMs)

(* C3: a sample is published only when a current fix i and a past fix j    *)
(* both exist and dt = ts[i] - ts[j] is > 0; an empty track, a query at or *)
(* before the track start, a track shorter than one window and tied        *)
(* timestamps get no sample, and no division by a zero dt is performed.    *)
C3_SampleOnlyWithPositiveDt ==
    /\ newStats # {} =>
          /\ currentIndex >= 0 /\ currentIndex < Len(track.fixes)
          /\ pastIndex >= 0 /\ pastIndex < Len(track.fixes)
          /\ DtMs(track.fixes, currentIndex, pastIndex) > 0
    /\ divided # Absent => divided[1] > 0
    /\ (divided # Absent) <=> (newStats # {})
    /\ (Queried /\ Len(track.fixes) = 0) => newStats = {}
    /\ (Queried /\ Len(track.fixes) > 0
          /\ trackTime - track.fixes[1].timestamp <= WindowMs) => newStats = {}
    /\ (Queried /\ currentIndex >= 0 /\ pastIndex >= 0
          /\ CurrentFix.timestamp = PastFix.timestamp) => newStats = {}

\* A query that published a sample.
C3_Witness ==
    /\ lastCall = "processed"
    /\ newStats # {}
    /\ divided # Absent

(* C4: the published vertical speed is (effective altitude of fix i minus  *)
(* effective altitude of fix j) / dt, the effective altitude being the gps *)
(* altitude if present, else the baro altitude, else 0.                    *)
C4_VarioFromEffectiveAltitude ==
    \A s \in newStats :
        s.vario = ((EffectiveAltitude(CurrentFix) - EffectiveAltitude(PastFix))
                      * 100000) \div DtMs(track.fixes, currentIndex, pastIndex)

(* C5: when the terrain height at the current fix is unknown, the          *)
(* published sample carries no AGL number.                                 *)
C5_UnknownTerrainNoAgl ==
    globe = Absent => \A s \in newStats : s.agl = Absent

(* C6: whenever a current fix exists and the terrain height is known, AGL  *)
(* is reported, even when speed and vertical speed are not.                *)
C6_AglIndependentOfWindow ==
    (Queried /\ currentIndex >= 0 /\ globe # Absent) =>
        \E s \in newStats : s.agl = Some(EffectiveAltitude(CurrentFix) - globe[1])

C8_SpeedFromGroundDistance ==
    \A s \in newStats :
        s.speed = (GroundDistance(PastFix, CurrentFix) * 3600)
                      \div DtMs(track.fixes, currentIndex, pastIndex)

-----------------------------------------------------------------------------
(* Notions the claims about the optimized path are stated with *)

\* calculateOptimizedPath has returned.
Returned == pc \in {"returned", "done"}

\* The task has a turnpoints list.
HasTurnpoints == task # Absent /\ task[1].turnpoints # Absent

Turnpoints == task[1].turnpoints[1]

\* Some turnpoint of the list has the type.
HasType(tps, type) == \E k \in 1..Len(tps) : tps[k].type = type

\* The index, from 0, of the first turnpoint of the type.
FirstOfType(tps, type) ==
    CHOOSE k \in 0..(Len(tps) - 1) :
        /\ tps[k + 1].type = type
        /\ \A m \in 0..(k - 1) : tps[m + 1].type # type

\* The turnpoint serving as start: the first SSS, else the first turnpoint.
EffectiveStart(tps) ==
    IF HasType(tps, "SSS") THEN FirstOfType(tps, "SSS") ELSE 0

\* The turnpoint serving as end: the first ESS, else the first GOAL, else
\* the last turnpoint.
EffectiveEnd(tps) ==
    IF HasType(tps, "ESS") THEN FirstOfType(tps, "ESS")
    ELSE IF HasType(tps, "GOAL") THEN FirstOfType(tps, "GOAL")
    ELSE Len(tps) - 1

(* C9: calculateOptimizedPath returns an empty path, without throwing, for *)
(* a null task, a task without a turnpoints list and a task with fewer     *)
(* than 2 turnpoints; calculateTaskDistance of that empty path is 0.       *)
C9_DegenerateTaskEmptyPath ==
    (pc # "call" /\ (~HasTurnpoints \/ Len(Turnpoints) < 2)) =>
        /\ pc # "threw"
        /\ Returned
        /\ path = << >>
        /\ pc = "done" => distance = 0

\* The call has returned for an object without a turnpoints list, and the
\* distance of the path has been taken.
C9_Witness ==
    /\ pc = "done"
    /\ task # Absent
    /\ task[1].turnpoints = Absent
    /\ path = << >>
    /\ distance = 0

(* C10, as stated: when no turnpoint has type SSS, or none has type ESS or *)
(* GOAL, calculateOptimizedPath returns an empty path.                     *)
C10_MissingRoleEmptyPath ==
    (Returned /\ HasTurnpoints
        /\ (\/ ~HasType(Turnpoints, "SSS")
            \/ ~HasType(Turnpoints, "ESS") /\ ~HasType(Turnpoints, "GOAL"))) =>
        path = << >>

(* C10, amended: a missing SSS makes the first turnpoint the start, and a  *)
(* missing ESS and GOAL make the last turnpoint the end; for a task of at  *)
(* least 2 turnpoints the path is empty exactly when the start is not      *)
(* before the end, and has one point per turnpoint from start to end       *)
(* otherwise.                                                              *)
C10_MissingRoleFallsBack ==
    (Returned /\ HasTurnpoints /\ Len(Turnpoints) >= 2) =>
        IF EffectiveStart(Turnpoints) < EffectiveEnd(Turnpoints)
        THEN Len(path) = EffectiveEnd(Turnpoints) - EffectiveStart(Turnpoints) + 1
        ELSE path = << >>

\* The call has returned a path for a task without SSS, ESS and GOAL.
C10_Witness ==
    /\ Returned
    /\ HasTurnpoints
    /\ Len(Turnpoints) >= 2
    /\ ~HasType(Turnpoints, "SSS")
    /\ ~HasType(Turnpoints, "ESS")
    /\ ~HasType(Turnpoints, "GOAL")
    /\ Len(path) = Len(Turnpoints)

-----------------------------------------------------------------------------
(* Notions of the plane the relaxation works in *)

\* The resolution of the model's arithmetic: lengths are whole metres, so
\* an equality of lengths is one up to Tolerance metres.
Tolerance == 1

\* The disks of the relevant turnpoints: centre and radius, in local metres.
Disks == LocalPoints(Points(Turnpoints))

\* The square of the planar distance of two points.
DistSq(p, q) == (p.x - q.x) * (p.x - q.x) + (p.y - q.y) * (p.y - q.y)

\* The working point p lies inside or on the disk d.
InDisk(p, d) == DistSq(p, d) <= (d.radius + Tolerance) * (d.radius + Tolerance)

(* C12: in the returned path, the point solved for each turnpoint lies     *)
(* inside or on that turnpoint's disk: its planar distance from the disk   *)
(* centre is at most the radius, also when the two neighbours of an        *)
(* interior point coincided during some pass.                              *)
C12_PointsInsideDisks ==
    (Returned /\ path # << >>) =>
        \A k \in 1..Len(opt) : InDisk(opt[k], Disks[k])

\* The planar length of a working path: the sum of the distances between
\* consecutive working points.
RECURSIVE PlanarLength(_)
PlanarLength(o) ==
    IF Len(o) < 2 THEN 0
    ELSE SqrtNearest(DistSq(o[1], o[2])) + PlanarLength(Tail(o))

\* The working points after the updates of the indices k .. Len(o) - 1 of
\* one pass.
RECURSIVE RestOfPass(_, _, _)
RestOfPass(disks, o, k) ==
    IF k >= Len(o) THEN o
    ELSE RestOfPass(disks, [o EXCEPT ![k + 1] = UpdatePoint(disks, o, k)], k + 1)

\* A pass is about to begin.
AtPassStart == pc = "loop" /\ i = 0 /\ iter < ITERATIONS

(* C13: the planar length of the working path never increases from one     *)
(* relaxation pass to the next, starting from the centre-to-centre path:   *)
(* the length after a pass is at most the length before it (up to the      *)
(* resolution of the lengths).                                             *)
C13_LengthNeverIncreases ==
    AtPassStart =>
        PlanarLength(RestOfPass(Disks, opt, 0))
            <= PlanarLength(opt) + Tolerance * Len(opt)

\* The path that joins the raw centres of the turnpoints in order.
RawCentres(tps) ==
    [k \in 1..Len(tps) |->
        FromDegrees(tps[k].lon, tps[k].lat, OrZero(tps[k].alt))]

(* C14: for any task, the total length of the optimized path, which is     *)
(* calculateTaskDistance of the result of calculateOptimizedPath, is at    *)
(* most the length of the path that joins the raw turnpoint centres in     *)
(* order (up to the resolution of the lengths).                            *)
C14_NotLongerThanCentrePath ==
    (pc = "done" /\ HasTurnpoints) =>
        distance <= CalculateTaskDistance(RawCentres(Turnpoints))
                        + Tolerance * Len(Turnpoints)

(* C15: when NaN or Infinity appears in a coordinate during                *)
(* calculateOptimizedPath, the call is reported as 'no path': the path     *)
(* handed to the renderer has no non-finite coordinate, and the task       *)
(* distance shown by TaskLoader is not computed from a path with one.      *)
C15_NoPoisonedPathUsed ==
    /\ optimizedPath # Absent =>
          \A k \in 1..Len(optimizedPath[1]) : optimizedPath[1][k] = "finite"
    /\ pc = "done" => \A k \in 1..Len(path) : path[k] = "finite"

\* |a - b| <= Tolerance
Near(a, b) == a - b <= Tolerance /\ b - a <= Tolerance

\* The centre of a turnpoint on the ground.
GroundCentre(tp) == FromDegrees(tp.lon, tp.lat, 0)

\* The Cartesian point p is above or below the centre of the turnpoint.
AtCentre(p, tp) ==
    /\ Near(p[1], GroundCentre(tp)[1])
    /\ Near(p[2], GroundCentre(tp)[2])

(* C16: for a task with exactly 2 turnpoints, both of radius 0,            *)
(* calculateOptimizedPath returns exactly 2 points, each at its            *)
(* turnpoint's centre, and the reported total length equals the distance   *)
(* between the two centres.                                                *)
C16_TwoPointTask ==
    (pc = "done" /\ HasTurnpoints /\ Len(Turnpoints) = 2
        /\ Turnpoints[1].radius = 0 /\ Turnpoints[2].radius = 0) =>
        /\ Len(path) = 2
        /\ AtCentre(path[1], Turnpoints[1])
        /\ AtCentre(path[2], Turnpoints[2])
        /\ Near(distance, Distance(GroundCentre(Turnpoints[1]),
                                   GroundCentre(Turnpoints[2])))

\* |n|
Abs(n) == IF n < 0 THEN 0 - n ELSE n

\* The distance of the point c from the segment between p and q.
DistanceToSegment(p, q, c) ==
    LET lab2 == DistSq(p, q)
        num == (c.x - p.x) * (q.x - p.x) + (c.y - p.y) * (q.y - p.y)
        cross == (q.x - p.x) * (c.y - p.y) - (q.y - p.y) * (c.x - p.x)
    IN  IF lab2 = 0 \/ num <= 0 THEN SqrtNearest(DistSq(p, c))
        ELSE IF num >= lab2 THEN SqrtNearest(DistSq(q, c))
        ELSE DivNearest(Abs(cross), SqrtNearest(lab2))

\* The distance of the working point p from the centre of the disk d.
FromCentre(p, d) == SqrtNearest(DistSq(p, d))

(* C17: for a 3-turnpoint task in which the straight line between the      *)
(* centres of turnpoint 0 and turnpoint 2 does not intersect the disk of   *)
(* turnpoint 1, the point solved for turnpoint 1 lies on the boundary      *)
(* circle of turnpoint 1: its distance from the centre equals the radius.  *)
C17_OffLinePointOnBoundary ==
    (Returned /\ HasTurnpoints /\ Len(Turnpoints) = 3 /\ Len(path) = 3
        /\ DistanceToSegment(Disks[1], Disks[3], Disks[2])
              > Disks[2].radius + Tolerance) =>
        Near(FromCentre(opt[2], Disks[2]), Disks[2].radius)

\* The working points after n more passes.
RECURSIVE AfterPasses(_, _, _)
AfterPasses(disks, o, n) ==
    IF n = 0 THEN o
    ELSE LET pass == RestOfPass(disks, o, 0)
         IN  IF Len(pass) = Len(o) THEN AfterPasses(disks, pass, n - 1)
             ELSE << >>

\* What a call of calculateOptimizedPath on a turnpoints list returns: the
\* steps of the call, composed.
OptimizedPathOf(tps) ==
    IF Len(tps) < 2 \/ StartIndex(tps) >= EndIndex(tps) THEN << >>
    ELSE LET points == Points(tps)
             localPoints == LocalPoints(points)
             centres == [k \in 1..Len(localPoints) |->
                            [x |-> localPoints[k].x, y |-> localPoints[k].y]]
         IN  ToCartesian(points, localPoints,
                         AfterPasses(localPoints, centres, ITERATIONS))

\* The same turnpoints without their altitudes.
WithoutAlt(tps) == [k \in 1..Len(tps) |-> [tps[k] EXCEPT !.alt = Absent]]

(* C18: the reported total task length does not depend on the altitudes of *)
(* the turnpoints: the task and the task that differs from it only in      *)
(* having no altitudes produce the same optimized length.                  *)
C18_LengthIndependentOfAltitude ==
    (pc = "done" /\ HasTurnpoints) =>
        distance = CalculateTaskDistance(OptimizedPathOf(WithoutAlt(Turnpoints)))

(* C19: in every copy of calculateOptimizedPath, toLocal and fromLocal use *)
(* the same two scale factors, computed from the origin's latitude only,   *)
(* so that fromLocal(toLocal(p)) reproduces p (to the resolution of the    *)
(* local coordinates), also for a p at another latitude than the origin's. *)
C19_RoundTripReproducesPoint ==
    (projection # Absent /\ projection[1].stage = "back") =>
        LET r == projection[1]
            geo == r.back[1]
        IN  /\ Abs(geo.lon - r.p.lon) * Kx(r.origin.lat) <= Tolerance * MicroDeg
            /\ Abs(geo.lat - r.p.lat) * Ky(r.origin.lat) <= Tolerance * MicroDeg


-----------------------------------------------------------------------------
(* The App: loading tasks and tracks (part_001), the TrackLoader           *)
(* (part_007:10-46) and the track entities of the Viewer.                  *)
(*                                                                         *)
(* Places are latitudes and longitudes in microdegrees relative to 60 N,   *)
(* 0 E, as everywhere.  tzlookup maps a place to the name of its zone and  *)
(* throws on coordinates outside the globe; the zones here are bands of    *)
(* 15 degrees of longitude.  The App's trackDate is not modelled.          *)

MaxLoads == 3
MaxFiles == 2

Degree == 1000000

ZoneNames == <<"Etc/GMT", "Etc/GMT-1", "Etc/GMT-2", "Etc/GMT-3">>

\* tzlookup(lat, lon): <<zone>>, or <<>> when it throws.
TzLookup(lat, lon) ==
    IF \/ lat + 60 * Degree > 90 * Degree
       \/ lat + 60 * Degree < 0 - 90 * Degree
       \/ lon > 180 * Degree
       \/ lon < 0 - 180 * Degree
    THEN Absent
    ELSE LET band == (2 * lon + 15 * Degree) \div (30 * Degree)
         IN  IF band < 0 THEN Some(ZoneNames[1])
             ELSE IF band < Len(ZoneNames) THEN Some(ZoneNames[band + 1])
             ELSE Some(ZoneNames[Len(ZoneNames)])

\* The .igc files the user can select, and what reading them gives: a track
\* whose first fix is at a place, text that IGCParser.parse rejects, or a
\* read error.
FileNames == {"a.igc", "b.igc", "c.igc", "d.igc"}

Content(name) ==
    IF name = "a.igc"
    THEN [kind |-> "track",
          fixes |-> <<[latitude |-> 0 - 14 * Degree, longitude |-> 6 * Degree]>>]
    ELSE IF name = "b.igc"
    THEN [kind |-> "track",
          fixes |-> <<[latitude |-> 0 - 20 * Degree, longitude |-> 22 * Degree]>>]
    ELSE IF name = "c.igc" THEN [kind |-> "corrupt", fixes |-> << >>]
    ELSE [kind |-> "unreadable", fixes |-> << >>]

\* The selections of event.target.files: lists of distinct files.
FileLists ==
    {fl \in UNION {[1..n -> FileNames] : n \in 1..MaxFiles} :
        \A j, k \in 1..Len(fl) : j # k => fl[j] # fl[k]}

\* colors.ts:3-23
TRACK_COLORS == <<"YELLOW", "CYAN", "MAGENTA", "ORANGE", "LIME", "RED",
                  "CORNFLOWERBLUE", "PINK", "TEAL", "SALMON">>

GetCssColor(index) == TRACK_COLORS[(index % Len(TRACK_COLORS)) + 1]

\* The task files the user can load: a task at a place of its own, a task
\* without turnpoints, and a task whose first turnpoint is off the globe.
TaskAt(lat, lon) ==
    Some([turnpoints |-> Some(<<
        [lat |-> lat, lon |-> lon, alt |-> Some(0), radius |-> 400,
         type |-> "SSS"],
        [lat |-> lat, lon |-> lon + LegLon, alt |-> Some(0), radius |-> 400,
         type |-> "ESS"]>>)])

TaskFiles ==
    {TaskAt(0 - 14 * Degree, 36 * Degree),
     TaskAt(40 * Degree, 36 * Degree),
     Some([turnpoints |-> Some(<< >>)])}

\* utils/optimization getTaskFromIGC, part_002:185
GetTaskFromIGC(t) == Absent

\* A handler that looks the task up in the state of the App as it is when
\* the handler runs.
ClosureTaskCurrent(sel) == task

\* The task that the handleTracksLoaded handed to a selection sees: the one
\* of the render in which the selection was made (useCallback, part_001:27
\* and 80; part_007:11, 44 and 46).
ClosureTask(sel) == sel.onTracksLoaded

\* handleTracksLoaded(newTracks), part_001:27-80, of the render whose task
\* was closureTask.
HandleTracksLoaded(newTracks, closureTask) ==
    /\ tracks' = newTracks
    /\ trackVisibility' =
           [f \in {newTracks[k].filename : k \in 1..Len(newTracks)} |-> TRUE]
    /\ entitiesDue' = TRUE
    /\ IF /\ Len(newTracks) > 0
          /\ closureTask = Absent
          /\ GetTaskFromIGC(newTracks[1]) # Absent
       THEN task' = GetTaskFromIGC(newTracks[1])
       ELSE UNCHANGED task
    /\ IF /\ Len(newTracks) > 0
          /\ closureTask = Absent
          /\ Len(newTracks[1].fixes) > 0
       THEN LET firstFix == newTracks[1].fixes[1]
                tz == TzLookup(firstFix.latitude, firstFix.longitude)
            IN  timezone' = IF tz # Absent THEN tz[1] ELSE "UTC"
       ELSE UNCHANGED timezone

\* TrackLoader.handleFileChange, part_007:11-46, up to the start of the
\* reads.
HandleFileChange(files) ==
    /\ loads < MaxLoads
    /\ IF selection = Absent THEN TRUE
       ELSE \/ selection[1].called > 0
            \/ \E k \in 1..Len(selection[1].files) :
                    selection[1].status[k] = "failed"
    /\ loads' = loads + 1
    /\ selection' = Some([files |-> files,
                          status |-> [k \in 1..Len(files) |-> "reading"],
                          loadedTracks |-> << >>,
                          called |-> 0,
                          onTracksLoaded |-> task])
    /\ UNCHANGED <<tracks, timezone, trackVisibility, showTask,
                   trackEntities, entitiesDue>>
    /\ UNCHANGED <<statsVars, pathVars, projection, firstCall, playVars>>

\* reader.onload of the file k, part_007:23-37.
ReaderOnLoad(k) ==
    /\ selection # Absent
    /\ k \in 1..Len(selection[1].files)
    /\ selection[1].status[k] = "reading"
    /\ LET file == selection[1].files[k]
           content == Content(file)
       IN  /\ content.kind # "unreadable"
           /\ selection' = Some(
                [selection[1] EXCEPT
                   !.status[k] = "loaded",
                   !.loadedTracks =
                       IF content.kind = "track"
                       THEN Append(@, [filename |-> file,
                                       color |-> GetCssColor(k - 1),
                                       fixes |-> content.fixes])
                       ELSE @])
    /\ UNCHANGED <<tracks, timezone, trackVisibility, showTask, loads,
                   trackEntities, entitiesDue>>
    /\ UNCHANGED <<statsVars, pathVars, projection, firstCall, playVars>>

\* The read of the file k fails: the reader raises its error event, for
\* which part_007:22-38 sets no handler, and the promise stays pending.
ReaderOnError(k) ==
    /\ selection # Absent
    /\ k \in 1..Len(selection[1].files)
    /\ selection[1].status[k] = "reading"
    /\ Content(selection[1].files[k]).kind = "unreadable"
    /\ selection' = Some([selection[1] EXCEPT !.status[k] = "failed"])
    /\ UNCHANGED <<tracks, timezone, trackVisibility, showTask, loads,
                   trackEntities, entitiesDue>>
    /\ UNCHANGED <<statsVars, pathVars, projection, firstCall, playVars>>

\* Promise.all(promises).then, part_007:43-45: every promise has resolved.
PromiseAllThen ==
    /\ selection # Absent
    /\ selection[1].called = 0
    /\ \A k \in 1..Len(selection[1].files) : selection[1].status[k] = "loaded"
    /\ selection' = Some([selection[1] EXCEPT !.called = @ + 1])
    /\ HandleTracksLoaded(selection[1].loadedTracks, ClosureTask(selection[1]))
    /\ UNCHANGED <<showTask, loads, trackEntities>>
    /\ UNCHANGED <<pc, iter, i, opt, path, distance, optimizedPath>>
    /\ UNCHANGED <<statsVars, projection, firstCall, playVars>>

\* The assignments of handleTaskLoaded(newTask), part_001:89-104.
SetTaskAndTimezone(newTask) ==
    /\ task' = newTask
    /\ showTask' = TRUE
    /\ LET tps == IF newTask = Absent THEN Absent ELSE newTask[1].turnpoints
           tz == IF tps # Absent /\ Len(tps[1]) > 0
                 THEN TzLookup(tps[1][1].lat, tps[1][1].lon)
                 ELSE Absent
       IN  timezone' = IF tz # Absent THEN tz[1] ELSE timezone

\* TaskLoader.handleFileChange, part_006:71-92, on a file that parses, and
\* the handleTaskLoaded it calls.
TaskFileChange(newTask) ==
    /\ loads < MaxLoads
    /\ loads' = loads + 1
    /\ SetTaskAndTimezone(newTask)
    /\ UNCHANGED <<tracks, trackVisibility, selection, trackEntities,
                   entitiesDue>>
    /\ UNCHANGED <<pc, iter, i, opt, path, distance, optimizedPath>>
    /\ UNCHANGED <<statsVars, projection, firstCall, playVars>>

\* The task checkbox, part_001:172-182: disabled while there is no task.
TaskToggle(checked) ==
    /\ task # Absent
    /\ showTask # checked
    /\ showTask' = checked
    /\ UNCHANGED <<tracks, timezone, trackVisibility, loads, selection,
                   trackEntities, entitiesDue>>
    /\ UNCHANGED <<statsVars, pathVars, projection, firstCall, playVars>>

\* The updater of handleToggleVisibility, part_001:118-121.
Toggled(prev, filename) ==
    [f \in DOMAIN prev \cup {filename} |->
        IF f = filename
        THEN (IF filename \in DOMAIN prev THEN ~prev[filename] ELSE TRUE)
        ELSE prev[f]]

\* handleToggleVisibility(filename), part_001:117-122, from the checkbox of
\* a track of the pilot list (PilotList.tsx:42-46).
HandleToggleVisibility(filename) ==
    /\ \E k \in 1..Len(tracks) : tracks[k].filename = filename
    /\ trackVisibility' = Toggled(trackVisibility, filename)
    /\ UNCHANGED <<tracks, timezone, showTask, loads, selection,
                   trackEntities, entitiesDue>>
    /\ UNCHANGED <<statsVars, pathVars, projection, firstCall, playVars>>

\* The ids of the entities the effect on [tracks] makes, Viewer.tsx:42-108.
EntityIds(ts) == [k \in 1..Len(ts) |-> ts[k].filename]

\* The effect that makes the entities also for an empty list of tracks.
EntitiesOfAll(ts, old) == EntityIds(ts)

\* The entities after the effect on [tracks], Viewer.tsx:42-108: the effect
\* returns at once when there are no tracks.
EntitiesOf(ts, old) == IF Len(ts) = 0 THEN old ELSE EntityIds(ts)

TrackEntitiesEffect ==
    /\ entitiesDue
    /\ entitiesDue' = FALSE
    /\ trackEntities' = EntitiesOf(tracks, trackEntities)
    /\ UNCHANGED <<tracks, timezone, trackVisibility, showTask, loads,
                   selection>>
    /\ UNCHANGED <<statsVars, pathVars, projection, firstCall, playVars>>

InitApp ==
    /\ NoListener
    /\ NoTask
    /\ NoUi
    /\ projection = Absent
    /\ firstCall = Absent

NextLoader ==
    \/ \E files \in FileLists : HandleFileChange(files)
    \/ \E k \in 1..MaxFiles : ReaderOnLoad(k)
    \/ \E k \in 1..MaxFiles : ReaderOnError(k)
    \/ PromiseAllThen

NextApp ==
    \/ NextLoader
    \/ \E newTask \in TaskFiles : TaskFileChange(newTask)
    \/ \E checked \in BOOLEAN : TaskToggle(checked)
    \/ \E filename \in FileNames : HandleToggleVisibility(filename)
    \/ TrackEntitiesEffect

SpecApp == InitApp /\ [][NextApp]_vars

\* The file reads, their error events and the promise callbacks happen when
\* they can; what the user does is up to the user.
SpecLoaderFair ==
    /\ InitApp
    /\ [][NextLoader]_vars
    /\ \A k \in 1..MaxFiles : WF_vars(ReaderOnLoad(k))
    /\ \A k \in 1..MaxFiles : WF_vars(ReaderOnError(k))
    /\ WF_vars(PromiseAllThen)

-----------------------------------------------------------------------------
(* Repeated calls of calculateOptimizedPath.                               *)
(*                                                                         *)
(* The application hands the function whatever task is loaded, as often as *)
(* a task is loaded (handleTaskLoaded sets the task, the memos of          *)
(* TaskLoader and TaskRenderer call the function on it).  Here a call is   *)
(* one step: the steps of the call, composed (OptimizedPathOf).  The call  *)
(* reads its argument and writes its return value; the function has no     *)
(* variable outside its body (part_002:10-170 declares only locals: the    *)
(* points are fresh objects made by map, line 29, and opt holds fresh      *)
(* objects too, line 62), so the call leaves everything else alone.        *)

MaxCalls == 3

\* The tasks loaded between calls: up to three turnpoints, start and end of
\* speed section in every arrangement, cylinders of 100 m, on a zigzag.
CallTasks ==
    {t \in Tasks :
        \/ t = Absent
        \/ t[1].turnpoints = Absent
        \/ LET tps == t[1].turnpoints[1]
           IN  /\ Len(tps) <= 3
               /\ \A k \in 1..Len(tps) :
                    /\ tps[k].type \in {"SSS", "ESS"}
                    /\ tps[k].radius = 100
                    /\ tps[k].alt # Absent
                    /\ (k = 2 => tps[k].lat # 0)}

\* A function that remembers its last non-empty result and returns it again.
CalculateOptimizedPathMemo(t) ==
    IF path # << >> THEN path
    ELSE IF Guard(t) = "go" THEN OptimizedPathOf(t[1].turnpoints[1])
    ELSE << >>

\* The value calculateOptimizedPath(t) returns, part_002:10-170.
CalculateOptimizedPath(t) ==
    IF Guard(t) = "go" THEN OptimizedPathOf(t[1].turnpoints[1])
    ELSE << >>

\* One whole call on the loaded task.
CalculateOptimizedPathCall ==
    /\ pc = "call"
    /\ pc' = "returned"
    /\ path' = CalculateOptimizedPath(task)
    /\ firstCall' = IF firstCall = Absent
                    THEN Some([task |-> task, path |-> path', calls |-> 1,
                               others |-> FALSE])
                    ELSE Some([firstCall[1] EXCEPT
                                 !.calls = @ + 1,
                                 !.others = @ \/ task # firstCall[1].task])
    /\ UNCHANGED <<task, iter, i, opt, distance, optimizedPath>>
    /\ UNCHANGED <<statsVars, projection>>
    /\ UNCHANGED uiVars

\* handleTaskLoaded, part_001:89-104: another task is loaded (or the same
\* one again), and the function will be called on it.
HandleTaskLoaded(newTask) ==
    /\ pc = "returned"
    /\ firstCall[1].calls < MaxCalls
    /\ SetTaskAndTimezone(newTask)
    /\ pc' = "call"
    /\ UNCHANGED <<iter, i, opt, path, distance, optimizedPath>>
    /\ UNCHANGED <<statsVars, projection, firstCall>>
    /\ UNCHANGED <<tracks, trackVisibility, loads, selection, trackEntities,
                   entitiesDue, playVars>>

InitCalls ==
    /\ NoUi
    /\ NoListener
    /\ task \in CallTasks
    /\ pc = "call"
    /\ iter = 0
    /\ i = 0
    /\ opt = << >>
    /\ path = << >>
    /\ distance = 0
    /\ optimizedPath = Absent
    /\ projection = Absent
    /\ firstCall = Absent

NextCalls ==
    \/ CalculateOptimizedPathCall
    \/ \E newTask \in CallTasks \ {Absent} : HandleTaskLoaded(newTask)

SpecCalls == InitCalls /\ [][NextCalls]_vars

-----------------------------------------------------------------------------
(* The single updates of a relaxation pass *)

\* The inner loop is about to run its body for the interior point i (from 0).
AtInterior ==
    /\ pc = "loop"
    /\ iter < ITERATIONS
    /\ 0 < i
    /\ i < Len(opt) - 1

\* The neighbours A = opt[i - 1] and B = opt[i + 1] of the point i coincide.
NeighboursCoincide == opt[i] = opt[i + 2]

(* C23: when the two neighbours of an interior point coincide, the update  *)
(* of the point is skipped: the point is after the step where it was       *)
(* before the step.                                                        *)
C23_CoincidentNeighboursSkip ==
    [][AtInterior /\ NeighboursCoincide => opt'[i + 1] = opt[i + 1]]_vars

\* The update of the interior point i has just run: A and B are its
\* neighbours, which the update left alone, C is its disk, p the point.
AfterInterior ==
    /\ pc = "loop"
    /\ HasTurnpoints
    /\ Len(opt) > 2
    /\ 1 < i
    /\ opt[i - 1] # opt[i + 1]

\* The segment between the neighbours passes through the disk of the point
\* i (from 1), clear of its boundary.
CutsThrough(o, k) ==
    DistanceToSegment(o[k - 1], o[k + 1], Disks[k]) <= Disks[k].radius - Tolerance

\* The segment between the neighbours passes outside the disk of the point.
StaysOutside(o, k) ==
    DistanceToSegment(o[k - 1], o[k + 1], Disks[k]) >= Disks[k].radius + Tolerance

\* p is the point of the segment between A and B that is closest to C.
IsClosestOnSegment(p, A, B, C) ==
    /\ DistanceToSegment(A, B, p) <= Tolerance
    /\ Abs(FromCentre(p, C) - DistanceToSegment(A, B, C)) <= Tolerance

\* p is the point of the boundary of C that is closest to the segment.
IsBoundaryTowardsSegment(p, A, B, C) ==
    /\ Abs(FromCentre(p, C) - C.radius) <= Tolerance
    /\ Abs(DistanceToSegment(A, B, p) + C.radius - DistanceToSegment(A, B, C))
           <= Tolerance

(* C24: an update of an interior point whose neighbours A and B do not     *)
(* coincide puts the point on the point Q of the segment A-B closest to    *)
(* the centre C of its disk when Q is within the radius of C, and          *)
(* otherwise on the boundary of the disk towards Q, at distance r from C   *)
(* (to the resolution of the coordinates).                                 *)
C24_InteriorUpdate ==
    [][AtInterior /\ ~NeighboursCoincide =>
          LET A == opt[i]
              B == opt[i + 2]
              C == Disks[i + 1]
              p == opt'[i + 1]
          IN  /\ CutsThrough(opt, i + 1) => IsClosestOnSegment(p, A, B, C)
              /\ StaysOutside(opt, i + 1) => IsBoundaryTowardsSegment(p, A, B, C)
              /\ \/ IsClosestOnSegment(p, A, B, C)
                 \/ IsBoundaryTowardsSegment(p, A, B, C)]_vars

\* An interior point has been put on the segment that cuts through its
\* disk, off the centre.
C24_Witness ==
    /\ AfterInterior
    /\ CutsThrough(opt, i)
    /\ Disks[i].radius > 0
    /\ opt[i] # [x |-> Disks[i].x, y |-> Disks[i].y]
    /\ IsClosestOnSegment(opt[i], opt[i - 1], opt[i + 1], Disks[i])

\* The centre of a disk, as a working point.
CentreOf(d) == [x |-> d.x, y |-> d.y]

\* The resolution of a boundary point of the disk C in the direction of q,
\* which is not at the centre: the distance len of q from the centre is
\* known to the metre, so the quotient r / len to one part in len.
Resolution(C, q) == Tolerance + C.radius \div FromCentre(q, C)

\* p is at distance r from the centre of C, to the resolution towards q.
AtRadius(p, C, q) == Abs(FromCentre(p, C) - C.radius) <= Resolution(C, q)

\* p is the point of the boundary of the disk C in the direction of q.
IsBoundaryTowards(p, C, q) ==
    /\ AtRadius(p, C, q)
    /\ Abs(FromCentre(p, q) - Abs(FromCentre(q, C) - C.radius))
           <= Resolution(C, q)

\* The inner loop is about to run its body for the first (k = 0) or the
\* last point.
AtEndPoint == pc = "loop" /\ iter < ITERATIONS /\ (i = 0 \/ i = Len(opt) - 1)

(* C25: the end points seek the boundary.  In every pass the first point   *)
(* is put on the boundary of its disk in the direction of the current      *)
(* position of point 1, and the last point in the direction of point N-2,  *)
(* wherever that neighbour is (inside the disk or outside it); and in the  *)
(* returned path the first and the last point are at distance r from their *)
(* centres whenever the adjacent point is not at that centre.              *)
C25_EndPointsSeekBoundary ==
    /\ [][AtEndPoint =>
            LET k == i + 1
                n == IF i = 0 THEN 2 ELSE i
            IN  opt[n] # CentreOf(Disks[k])
                    => IsBoundaryTowards(opt'[k], Disks[k], opt[n])]_vars
    /\ [](Returned /\ HasTurnpoints /\ path # << >> =>
            /\ opt[2] # CentreOf(Disks[1])
                    => AtRadius(opt[1], Disks[1], opt[2])
            /\ opt[Len(opt) - 1] # CentreOf(Disks[Len(opt)])
                    => AtRadius(opt[Len(opt)], Disks[Len(opt)],
                                opt[Len(opt) - 1]))

\* A path has been returned whose first point is on the boundary of a disk
\* that contains the second point.
C25_Witness ==
    /\ Returned
    /\ HasTurnpoints
    /\ path # << >>
    /\ Disks[1].radius > 0
    /\ opt[2] # CentreOf(Disks[1])
    /\ FromCentre(opt[2], Disks[1]) < Disks[1].radius
    /\ IsBoundaryTowards(opt[1], Disks[1], opt[2])

\* The working points before the first pass: the centres.
Centres == [k \in 1..Len(Disks) |-> CentreOf(Disks[k])]

\* The pass n (from 1) of the call moved a working point.  In whole metres
\* a move of more than the epsilon of 0.01 m is a move.
PassMoved(n) ==
    AfterPasses(Disks, Centres, n) # AfterPasses(Disks, Centres, n - 1)

(* C26: the relaxation stops early.  Once a complete pass has moved no     *)
(* working point, no further pass is executed: a pass is only ever running *)
(* when the pass before it moved a point.                                  *)
C26_StopsWhenNothingMoves ==
    pc = "loop" /\ HasTurnpoints /\ iter >= 1 /\ i >= 1 => PassMoved(iter)

-----------------------------------------------------------------------------
(* The App: timezone, task visibility, track visibility *)

\* The task of the App has a first turnpoint, and tzlookup finds its zone.
TaskHasZone ==
    /\ HasTurnpoints
    /\ Len(Turnpoints) > 0
    /\ TzLookup(Turnpoints[1].lat, Turnpoints[1].lon) # Absent

TaskZone == TzLookup(Turnpoints[1].lat, Turnpoints[1].lon)[1]

\* The first track of the App has a first fix, and tzlookup finds its zone.
TrackHasZone ==
    /\ Len(tracks) > 0
    /\ Len(tracks[1].fixes) > 0
    /\ TzLookup(tracks[1].fixes[1].latitude, tracks[1].fixes[1].longitude)
           # Absent

TrackZone ==
    TzLookup(tracks[1].fixes[1].latitude, tracks[1].fixes[1].longitude)[1]

(* C21: after any sequence of task loads and track loads, the timezone of  *)
(* the App is the zone of the task's location whenever a task is loaded,   *)
(* and otherwise the zone of the first fix of the first loaded track: a    *)
(* track load never replaces the zone of a task.                           *)
C21_TimezoneFollowsTask ==
    /\ TaskHasZone => timezone = TaskZone
    /\ task = Absent /\ TrackHasZone => timezone = TrackZone

(* C22: task visibility is on by default exactly when a task file is       *)
(* loaded: showTask is false while no task has been loaded.                *)
C22_ShowTaskOffWithoutTask ==
    task = Absent => showTask = FALSE

\* The tracks the Viewer renders, Viewer.tsx:381-383: the entities whose
\* visibility is not false.
Rendered ==
    {trackEntities[k] : k \in
        {j \in 1..Len(trackEntities) :
            \/ trackEntities[j] \notin DOMAIN trackVisibility
            \/ trackVisibility[trackEntities[j]]}}

\* The tracks whose checkbox is checked in the pilot list,
\* PilotList.tsx:26-46.
Checked ==
    {tracks[k].filename : k \in
        {j \in 1..Len(tracks) :
            /\ tracks[j].filename \in DOMAIN trackVisibility
            /\ trackVisibility[tracks[j].filename]}}

(* C30: after any sequence of track loads and visibility toggles the pilot *)
(* list and the viewer agree: every loaded track has a visibility flag,    *)
(* and once the viewer has taken up the tracks, a track is rendered        *)
(* exactly when its checkbox is checked.                                   *)
C30_ListAndViewerAgree ==
    /\ \A k \in 1..Len(tracks) : tracks[k].filename \in DOMAIN trackVisibility
    /\ ~entitiesDue => Rendered = Checked

-----------------------------------------------------------------------------
(* The TrackLoader *)

\* onTracksLoaded has been called for the selection; tracks is the list it
\* was handed.
Delivered == selection # Absent /\ selection[1].called > 0

\* The track that the file k (from 1) of a selection parses to.
TrackOfFile(files, k) ==
    [filename |-> files[k], color |-> GetCssColor(k - 1),
     fixes |-> Content(files[k]).fixes]

\* The tracks of the files of a selection that parse, in selection order.
RECURSIVE ParsedInOrder(_, _)
ParsedInOrder(files, k) ==
    IF k > Len(files) THEN << >>
    ELSE IF Content(files[k]).kind = "track"
         THEN <<TrackOfFile(files, k)>> \o ParsedInOrder(files, k + 1)
         ELSE ParsedInOrder(files, k + 1)

(* C27: the list passed to onTracksLoaded is in file-selection order,      *)
(* whatever the order in which the reads complete: it is the list of the   *)
(* selected files that parsed, in the order of the selection, each with    *)
(* the colour of its selection index.                                      *)
C27_SelectionOrder ==
    Delivered => tracks = ParsedInOrder(selection[1].files, 1)

\* No file of the selection is still being read.
AllFinished ==
    \A k \in 1..Len(selection[1].files) : selection[1].status[k] # "reading"

\* The tracks of a list, as a set.
TrackSet(ts) == {ts[k] : k \in 1..Len(ts)}

(* C28: for every selection of files onTracksLoaded is eventually called,  *)
(* exactly once, only after every file has finished reading, and with      *)
(* exactly the files that parsed; a file that fails to parse or to be read *)
(* does not prevent the call.                                              *)
C28_EventuallyCalledOnce ==
    /\ [](selection # Absent => selection[1].called <= 1)
    /\ [](Delivered =>
            /\ AllFinished
            /\ TrackSet(tracks)
                   = TrackSet(ParsedInOrder(selection[1].files, 1)))
    /\ (selection # Absent) ~> Delivered

-----------------------------------------------------------------------------
(* Play and pause: Viewer.tsx:292-339.                                     *)
(*                                                                         *)
(* A state update of the Viewer is followed by a render and a commit; the  *)
(* effects of the commit run later, all in one go and in the order of      *)
(* their declaration, and before the next render at the latest.  A clock   *)
(* tick runs the onTick listeners.                                         *)

MaxClicks == 3
MaxPlayTicks == 3

\* The buttons of PlaybackControls, part_007:158-161.
Multipliers == {1, 10, 20, 50}

\* An effect that leaves the ref as it is.
RefEffectSkipped(ref, playing) == ref

\* The effect on [isPlaying], Viewer.tsx:309-311: the new isPlayingRef.current.
RefEffect(ref, playing) == playing

\* The effects of the last commit, if they have not run yet:
\* Viewer.tsx:309-311 and 331-339.
FlushEffects ==
    IF effectsDue
    THEN /\ isPlayingRef' = RefEffect(isPlayingRef, isPlaying)
         /\ shouldAnimate' = isPlaying
         /\ clockMultiplier' = multiplier
    ELSE UNCHANGED <<isPlayingRef, shouldAnimate, clockMultiplier>>

\* handlePlayPause, Viewer.tsx:292-294, and the render it causes.
HandlePlayPause ==
    /\ clicks < MaxClicks
    /\ clicks' = clicks + 1
    /\ FlushEffects
    /\ isPlaying' = ~isPlaying
    /\ effectsDue' = TRUE
    /\ UNCHANGED <<multiplier, ticks>>
    /\ UNCHANGED <<statsVars, pathVars, projection, firstCall, appVars>>

\* handleMultiplierChange, Viewer.tsx:303-305, and the render it causes.
HandleMultiplierChange(newMultiplier) ==
    /\ newMultiplier # multiplier
    /\ FlushEffects
    /\ multiplier' = newMultiplier
    /\ effectsDue' = TRUE
    /\ UNCHANGED <<isPlaying, clicks, ticks>>
    /\ UNCHANGED <<statsVars, pathVars, projection, firstCall, appVars>>

\* The effects run.
RunEffects ==
    /\ effectsDue
    /\ FlushEffects
    /\ effectsDue' = FALSE
    /\ UNCHANGED <<isPlaying, multiplier, clicks, ticks>>
    /\ UNCHANGED <<statsVars, pathVars, projection, firstCall, appVars>>

\* A clock tick and the listener of Viewer.tsx:317-322; a setIsPlaying
\* that changes the state causes a render.
ClockTick ==
    /\ ticks < MaxPlayTicks
    /\ ticks' = ticks + 1
    /\ IF shouldAnimate # isPlayingRef /\ shouldAnimate # isPlaying
       THEN /\ FlushEffects
            /\ isPlaying' = shouldAnimate
            /\ effectsDue' = TRUE
       ELSE UNCHANGED <<isPlaying, isPlayingRef, shouldAnimate,
                        clockMultiplier, effectsDue>>
    /\ UNCHANGED <<multiplier, clicks>>
    /\ UNCHANGED <<statsVars, pathVars, projection, firstCall, appVars>>

NextPlay ==
    \/ HandlePlayPause
    \/ \E newMultiplier \in Multipliers : HandleMultiplierChange(newMultiplier)
    \/ RunEffects
    \/ ClockTick

\* The effects of a commit do run; clicks and ticks are up to the user and
\* the clock.
SpecPlay == InitApp /\ [][NextPlay]_vars /\ WF_vars(RunEffects)

(* C29: under any interleaving of play / pause clicks, effect runs and     *)
(* clock ticks, every click takes effect on the clock (shouldAnimate       *)
(* becomes the toggled isPlaying), the tick listener never sets isPlaying  *)
(* back, and whenever no click is pending isPlaying equals shouldAnimate.  *)
C29_PlayPauseInSync ==
    /\ [](~effectsDue => isPlaying = shouldAnimate)
    /\ [][ticks' # ticks => isPlaying' = isPlaying]_vars
    /\ effectsDue ~> (~effectsDue /\ shouldAnimate = isPlaying)

\* Playing: after the last click and its effects, and with ticks in between,
\* the clock animates.
C29_Witness ==
    /\ clicks = MaxClicks
    /\ ticks > 0
    /\ ~effectsDue
    /\ isPlaying
    /\ shouldAnimate

=============================================================================
